---- MODULE Spec2Model ----
(***************************************************************************)
(* A model of brainsmash's CIFTI I/O functions (brainsmash/neuro/io.py)    *)
(* and of the inverse-distance kernel (brainsmash/utils/kernels.py).       *)
(*                                                                         *)
(* Every function of the program is one action: a caller that is idle      *)
(* calls it with some input, the action runs the whole function and leaves *)
(* its input, the values of its local variables and its outcome (a return  *)
(* value or a raised exception) in the state; Return takes the caller back *)
(* to idle.  The only state that outlives a call is the set of scratch     *)
(* directories on the file system.                                         *)
(*                                                                         *)
(* Paths and XML text are sequences of one-character strings, so that      *)
(* path.splitext, str.split and int() are computed as Python computes      *)
(* them.  The external programs and files (wb_command, the images, the     *)
(* surface files) are inputs drawn from small sets.                        *)
(***************************************************************************)
EXTENDS Integers, Sequences, FiniteSets, TLC

VARIABLES pc,       \* "idle", or "returned" once a call has ended
          op,       \* the function called last
          args,     \* its input, with the answers of the external tool
          result,   \* its outcome: a return value or a raised exception
          locals,   \* the local variables of the call that the claims name
          tmpdirs,  \* the scratch directories that exist on the file system
          created   \* the scratch directories the last call has created

vars == <<pc, op, args, result, locals, tmpdirs, created>>

----------------------------------------------------------------------------
(* Bounds *)

MeshSize   == 3   \* the vertex count of the standard mesh (32492), scaled
MaxDirs    == 2   \* scratch directory names available to mkdtemp
MaxParcels == 2   \* Parcel nodes in a document
MaxNodes   == 2   \* geometry nodes in a Parcel
MaxMD      == 2   \* entries of a surface's metadata
MaxLen     == 3   \* length of a distance array

----------------------------------------------------------------------------
(* Outcomes *)

Return_(v)     == [kind |-> "ok", value |-> v]
Raise(exc, m)  == [kind |-> "error", exc |-> exc, msg |-> m]
IsError(r)     == r.kind = "error"
Raised(r, exc) == r.kind = "error" /\ r.exc = exc

NoValue == [kind |-> "none"]

Min(S) == CHOOSE x \in S : \A y \in S : x <= y
Max(S) == CHOOSE x \in S : \A y \in S : x >= y

RECURSIVE SortedSeq(_)
SortedSeq(S) == IF S = {} THEN << >> ELSE <<Min(S)>> \o SortedSeq(S \ {Min(S)})

SeqsUpTo(S, n) == UNION {[1..k -> S] : k \in 0..n}

Range(s) == {s[i] : i \in DOMAIN s}

----------------------------------------------------------------------------
(* Paths *)

f_dlabel   == <<"f",".","d","l","a","b","e","l",".","n","i","i">>
f_dscalar  == <<"f",".","d","s","c","a","l","a","r",".","n","i","i">>
f_ptseries == <<"f",".","p","t","s","e","r","i","e","s",".","n","i","i">>
f_pscalar  == <<"f",".","p","s","c","a","l","a","r",".","n","i","i">>
f_surf_gii == <<"f",".","s","u","r","f",".","g","i","i">>
f_txt      == <<"f",".","t","x","t">>
f_nii      == <<"f",".","n","i","i">>
d_f_nii    == <<"d",".","d","/","f",".","n","i","i">>

dot_nii     == <<".","n","i","i">>
dot_gii     == <<".","g","i","i">>
dot_dscalar == <<".","d","s","c","a","l","a","r">>
dot_pscalar == <<".","p","s","c","a","l","a","r">>

Paths == {f_dlabel, f_dscalar, f_ptseries, f_pscalar, f_surf_gii, f_txt,
          f_nii, d_f_nii}

\* str.rfind, with positions counted from 1 and 0 for "not found"
rfind(p, c) ==
    LET I == {i \in 1..Len(p) : p[i] = c} IN IF I = {} THEN 0 ELSE Max(I)

\* os.path.splitext: the extension starts at the last dot of the last path
\* component, unless that component has only dots before it
splitext(p) ==
    LET sepIndex == rfind(p, "/")
        dotIndex == rfind(p, ".")
    IN  IF /\ dotIndex > sepIndex
           /\ \E k \in (sepIndex + 1)..(dotIndex - 1) : p[k] # "."
        THEN <<SubSeq(p, 1, dotIndex - 1), SubSeq(p, dotIndex, Len(p))>>
        ELSE <<p, << >> >>

----------------------------------------------------------------------------
(* The external tool: wb_command -cifti-export-dense-mapping *)

structures == <<"Subcortex", "CortexLeft", "CortexRight">>

\* the rows "<CIFTI index> <vertex>" the tool writes for a cortex, the
\* vertices vs in increasing order, the CIFTI indices counted from off
CortexRows(vs, off) == [i \in 1..Len(vs) |-> <<off + i - 1, vs[i]>>]

VertexLists(nv) == {SortedSeq(S) : S \in (SUBSET (0..(nv - 1))) \ {{}}}

Absent      == [returncode |-> 1, file |-> << >>]
EmptyOutput == [returncode |-> 0, file |-> << >>]
Output(rows) == [returncode |-> 0, file |-> rows]

\* the tool's answers for the three structures of one image; the CIFTI
\* indices of the right cortex follow those of the left cortex
WbRuns(lists) ==
    UNION {
      {("Subcortex" :> s) @@ ("CortexLeft" :> l) @@ ("CortexRight" :> r) :
         s \in {Absent, EmptyOutput, Output(<<<<MeshSize, 1, 0, 0, 0>>>>)},
         r \in {Absent, EmptyOutput}
               \cup {Output(CortexRows(vs, Len(l.file))) : vs \in lists}} :
      l \in {Absent, EmptyOutput} \cup {Output(CortexRows(vs, 0)) : vs \in lists}}

\* the tool was not invoked
NotRun == [s \in Range(structures) |-> [returncode |-> 0 - 1, file |-> << >>]]

\* the answers for the bundled atlas, and those for a caller's image
AtlasRuns == WbRuns(VertexLists(MeshSize))
ImageRuns == WbRuns({<<0>>})

\* tempfile.mkdtemp: a directory that did not exist
mkdtemp(dirs) == Min((1..MaxDirs) \ dirs)

\* getsize that counts a header line the file does not have
getsize_with_header(file) == Len(file) + 1

\* os.path.getsize of a text file of rows
getsize(file) == Len(file)

\* pandas.read_table(of, delimiter=" ", index_col=0, header=None, names=cols):
\* the first column is the index, the others are the values
read_table(file) ==
    [index  |-> [i \in 1..Len(file) |-> file[i][1]],
     values |-> [i \in 1..Len(file) |-> Tail(file[i])]]

----------------------------------------------------------------------------
(* export_cifti_mapping *)

EmptyFileMsg == "File created by Connectome Workbench is empty."
NoFilesMsg   == "No files were created by Connectome Workbench."
NotDenseMsg  == "Image file must be a dense NIFTI file "

\* the loop over the three structures, from structure i on
RECURSIVE export_loop(_, _, _, _)
export_loop(wb, i, data, structs_present) ==
    IF i > Len(structures)
    THEN [raised |-> FALSE, data |-> data, structs_present |-> structs_present]
    ELSE LET s  == structures[i]
             of == wb[s]
         IN  IF of.returncode # 0
             THEN export_loop(wb, i + 1, data, structs_present)
             ELSE IF getsize(of.file) = 0
             THEN [raised |-> TRUE, data |-> data,
                   structs_present |-> structs_present]
             ELSE export_loop(wb, i + 1, data @@ (s :> read_table(of.file)),
                              Append(structs_present, s))

\* the check of the file extension: the exception it raises, or NoValue
export_check(image) ==
    LET ext1 == splitext(image)[2]
        ext2 == splitext(splitext(image)[1])[2]
    IN  IF ext1 # dot_nii THEN Raise("TypeError", NotDenseMsg)
        ELSE IF Len(ext2) < 2
        THEN Raise("IndexError", "string index out of range")
        ELSE IF ext2[2] # "d" THEN Raise("TypeError", NotDenseMsg)
        ELSE NoValue

\* the whole function: its outcome, its locals, and the scratch directories
\* it has created and those it leaves on the file system
export_cifti_mapping(image, wb, dirs) ==
    IF export_check(image) # NoValue
    THEN [result |-> export_check(image),
          structs_present |-> << >>, created |-> {}, dirs |-> dirs]
    ELSE LET tmpdir == mkdtemp(dirs)
             loop   == export_loop(wb, 1, << >>, << >>)
         IN  [result  |-> IF loop.raised
                          THEN Raise("RuntimeError", EmptyFileMsg)
                          ELSE IF Len(loop.structs_present) = 0
                          THEN Raise("RuntimeError", NoFilesMsg)
                          ELSE Return_(loop.data),
              structs_present |-> loop.structs_present,
              created |-> {tmpdir},
              dirs    |-> dirs \cup {tmpdir}]

----------------------------------------------------------------------------
(* Surface files, load_data and get_hemisphere *)

\* the texts of the children of a metadata entry
MDTexts == {"AnatomicalStructurePrimary", "CortexLeft", "CortexRight",
            "Cerebellum"}

\* darrays[0].meta as an XML tree: the root's children are the entries, and
\* an entry's children are given by their texts
MetaDocs == SeqsUpTo(SeqsUpTo(MDTexts, 2), MaxMD)

MetaOf(structure) == << <<"AnatomicalStructurePrimary", structure>> >>

\* what the decoding library reads from a file: the length of the first data
\* array and that array's metadata
Files == [nv : {MeshSize - 1, MeshSize},
          meta : {MetaOf("CortexLeft"), MetaOf("CortexRight"),
                  MetaOf("Cerebellum"), << >>}]

UnrecognizedFileMsg == "Unrecognized file type"

load_data(f, file) ==
    LET ext == splitext(f)[2]
    IN  IF ext = dot_gii THEN Return_([shape |-> <<file.nv>>])
        ELSE IF ext = dot_nii THEN Return_([shape |-> <<file.nv>>])
        ELSE Raise("TypeError", UnrecognizedFileMsg)

UnidentifiedMsg == "Unidentified structure in surface file metadata."

\* root[0][1].text is read before the try statement is entered
get_hemisphere(root) ==
    IF Len(root) < 1 \/ Len(root[1]) < 2
    THEN Raise("IndexError", "child index out of range")
    ELSE LET structure == root[1][2]
         IN  IF structure = "CortexRight" \/ structure = "CortexLeft"
             THEN Return_(structure)
             ELSE Raise("ValueError", UnidentifiedMsg)

----------------------------------------------------------------------------
(* mask_medial_wall *)

dlabel == f_dlabel    \* the bundled atlas, a .dlabel.nii file

NotDscalarMsg == "Image file must be a dense scalar file with extension .dscalar.nii"
NotStandardMsg == "Surface must be a standard 32k mesh."

\* squeeze that keeps the first row only
squeeze_first_row(values) ==
    [ndim |-> 0, data |-> <<values[1][1]>>]

\* numpy's squeeze of an (n, 1) array: n values, and a scalar when n = 1
squeeze(values) ==
    [ndim |-> IF Len(values) = 1 THEN 0 ELSE 1,
     data |-> [i \in 1..Len(values) |-> values[i][1]]]

\* the mask indexed by the table's index (the CIFTI indices) instead of its
\* values (the vertices)
medial_wall_mask_by_index(nv, mapping) ==
    [p \in 1..nv |-> ~((p - 1) \in Range(mapping.index))]

\* mask = np.array([True]*nv); mask[idx] = False.  Position p of the array is
\* element p + 1 of the sequence.
medial_wall_mask(nv, mapping) ==
    LET idx == squeeze(mapping.values)
    IN  [p \in 1..nv |-> ~((p - 1) \in Range(idx.data))]

\* the steps before the external tool is run: the exception raised, or the
\* hemisphere of the surface
mask_checks(surface, image) ==
    LET ext1 == splitext(image)[2]
        ext2 == splitext(splitext(image)[1])[2]
        data == load_data(surface.path, surface.file)
    IN  IF ext1 # dot_nii \/ ext2 # dot_dscalar
        THEN Raise("TypeError", NotDscalarMsg)
        ELSE IF IsError(data) THEN data
        ELSE IF data.value.shape[1] # MeshSize
        THEN Raise("ValueError", NotStandardMsg)
        ELSE get_hemisphere(surface.file.meta)

\* mask_medial_wall with the mappings taken from the caller's image instead
\* of the atlas
mask_medial_wall_of_image(surface, image, wb_image, wb_atlas, dirs) ==
    LET checks == mask_checks(surface, image)
        first  == export_cifti_mapping(image, wb_image, dirs)
        second == export_cifti_mapping(image, wb_image, first.dirs)
        none   == [surface_structure |-> "", image_structure |-> << >>]
    IN  IF IsError(checks)
        THEN [result |-> checks, runs |-> 0, locals |-> none,
              created |-> {}, dirs |-> dirs]
        ELSE IF IsError(first.result)
        THEN [result |-> first.result, runs |-> 1,
              locals |-> [none EXCEPT !.surface_structure = checks.value],
              created |-> first.created, dirs |-> first.dirs]
        ELSE LET lcl == [surface_structure |-> checks.value,
                         image_structure   |-> first.structs_present]
                 all == first.created \cup second.created
             IN  IF IsError(second.result)
                 THEN [result |-> second.result, runs |-> 2, locals |-> lcl,
                       created |-> all, dirs |-> second.dirs]
                 ELSE IF checks.value \notin DOMAIN second.result.value
                 THEN [result |-> Raise("KeyError", checks.value), runs |-> 2,
                       locals |-> lcl, created |-> all, dirs |-> second.dirs]
                 ELSE [result |-> Return_(medial_wall_mask(
                                     MeshSize, second.result.value[checks.value])),
                       runs |-> 2, locals |-> lcl,
                       created |-> all, dirs |-> second.dirs]

\* the whole function, given the tool's answers for the caller's image and
\* for the atlas
mask_medial_wall(surface, image, wb_image, wb_atlas, dirs) ==
    LET checks == mask_checks(surface, image)
        first  == export_cifti_mapping(image, wb_image, dirs)
        second == export_cifti_mapping(dlabel, wb_atlas, first.dirs)
        none   == [surface_structure |-> "", image_structure |-> << >>]
    IN  IF IsError(checks)
        THEN [result |-> checks, runs |-> 0, locals |-> none,
              created |-> {}, dirs |-> dirs]
        ELSE IF IsError(first.result)
        THEN [result |-> first.result, runs |-> 1,
              locals |-> [none EXCEPT !.surface_structure = checks.value],
              created |-> first.created, dirs |-> first.dirs]
        ELSE LET lcl == [surface_structure |-> checks.value,
                         image_structure   |-> first.structs_present]
                 all == first.created \cup second.created
             IN  IF IsError(second.result)
                 THEN [result |-> second.result, runs |-> 2, locals |-> lcl,
                       created |-> all, dirs |-> second.dirs]
                 ELSE IF checks.value \notin DOMAIN second.result.value
                 THEN [result |-> Raise("KeyError", checks.value), runs |-> 2,
                       locals |-> lcl, created |-> all, dirs |-> second.dirs]
                 ELSE [result |-> Return_(medial_wall_mask(
                                     MeshSize, second.result.value[checks.value])),
                       runs |-> 2, locals |-> lcl,
                       created |-> all, dirs |-> second.dirs]

----------------------------------------------------------------------------
(* Text of XML nodes: str.split and int *)

Digits == {"0", "1", "2", "3", "4", "5", "6", "7", "8", "9"}

DigitValue == ("0" :> 0) @@ ("1" :> 1) @@ ("2" :> 2) @@ ("3" :> 3)
              @@ ("4" :> 4) @@ ("5" :> 5) @@ ("6" :> 6) @@ ("7" :> 7)
              @@ ("8" :> 8) @@ ("9" :> 9)

IsSpace(c) == c \in {" ", "\n"}

\* str.split(sep): the pieces between the occurrences of sep, empty ones too
RECURSIVE split_sep(_, _)
split_sep(text, sep) ==
    LET I == {i \in 1..Len(text) : text[i] = sep}
    IN  IF I = {} THEN <<text>>
        ELSE <<SubSeq(text, 1, Min(I) - 1)>>
             \o split_sep(SubSeq(text, Min(I) + 1, Len(text)), sep)

\* str.split(): the maximal runs of characters that are not whitespace
RECURSIVE split_ws(_)
split_ws(text) ==
    IF text = << >> THEN << >>
    ELSE IF IsSpace(text[1]) THEN split_ws(Tail(text))
    ELSE LET I == {i \in 1..Len(text) : IsSpace(text[i])}
             n == IF I = {} THEN Len(text) ELSE Min(I) - 1
         IN  <<SubSeq(text, 1, n)>> \o split_ws(SubSeq(text, n + 1, Len(text)))

\* str.strip()
RECURSIVE strip(_)
strip(t) ==
    IF t = << >> THEN t
    ELSE IF IsSpace(t[1]) THEN strip(Tail(t))
    ELSE IF IsSpace(t[Len(t)]) THEN strip(SubSeq(t, 1, Len(t) - 1))
    ELSE t

RECURSIVE DecimalValue(_)
DecimalValue(t) ==
    IF t = << >> THEN 0
    ELSE 10 * DecimalValue(SubSeq(t, 1, Len(t) - 1)) + DigitValue[t[Len(t)]]

\* int(piece) raises ValueError
Invalid == 0 - 1

\* int(piece): surrounding whitespace is dropped, digits must remain
int(piece) ==
    LET t == strip(piece)
    IN  IF t = << >> \/ \E i \in 1..Len(t) : t[i] \notin Digits
        THEN Invalid
        ELSE DecimalValue(t)

\* [int(i) for i in pieces]
ints(pieces) == [i \in 1..Len(pieces) |-> int(pieces[i])]

\* numpy's reshape(-1, 3) of a flat array whose length is a multiple of 3
reshape3(flat) ==
    [i \in 1..(Len(flat) \div 3) |->
        <<flat[3 * i - 2], flat[3 * i - 1], flat[3 * i]>>]

----------------------------------------------------------------------------
(* parcel_to_vertex *)

LEFT == "CIFTI_STRUCTURE_CORTEX_LEFT"
RIGHT == "CIFTI_STRUCTURE_CORTEX_RIGHT"
CEREBELLUM == "CIFTI_STRUCTURE_CEREBELLUM"

Vertices(structure, text) ==
    [tag |-> "Vertices", BrainStructure |-> structure, text |-> text]
VoxelIndicesIJK(text) ==
    [tag |-> "VoxelIndicesIJK", BrainStructure |-> "", text |-> text]

Nodes == {Vertices(LEFT, <<"3"," ","7"," ","9">>),
          Vertices(LEFT, <<"3"," "," ","7">>),
          Vertices(RIGHT, <<"1","2">>),
          Vertices(CEREBELLUM, <<"3"," ","7"," ","9">>),
          VoxelIndicesIJK(<<"1"," ","2","\n","3">>),
          VoxelIndicesIJK(<<"1"," ","2">>)}

\* a Parcel holds at most one Vertices node for a structure and at most one
\* VoxelIndicesIJK node
ChildSeqs ==
    {c \in SeqsUpTo(Nodes, MaxNodes) :
        \A i, j \in 1..Len(c) :
            (c[i].tag = c[j].tag /\ c[i].BrainStructure = c[j].BrainStructure)
                => i = j}

ParcelNames == {"A", "B"}

\* the XML of the image's header extension: text that does not parse, or a
\* tree given by its Parcel nodes in document order
Corrupt == [wellformed |-> FALSE, parcels |-> << >>]
NotRead == [wellformed |-> FALSE, parcels |-> << >>, read |-> FALSE]
Documents ==
    {Corrupt} \cup
    {[wellformed |-> TRUE, parcels |-> ps] :
        ps \in SeqsUpTo([Name : ParcelNames, children : ChildSeqs], MaxParcels)}

NotPscalarMsg == "Image file must be a parcellated scalar file with extension .pscalar.nii"
UnrecognizedMsg == "Unrecognized structure in image metadata"

\* the loop over root.iter("Parcel"), from Parcel i on
RECURSIVE parcel_loop(_, _, _, _)
parcel_loop(parcels, i, plabel2idx, idx) ==
    IF i > Len(parcels) THEN plabel2idx
    ELSE parcel_loop(parcels, i + 1,
                     (parcels[i].Name :> idx) @@ plabel2idx, idx + 1)

\* root.iter(tag): the nodes with this tag in document order, each with the
\* Name of its parent
RECURSIVE iter(_, _, _)
iter(parcels, i, tag) ==
    IF i > Len(parcels) THEN << >>
    ELSE LET c == parcels[i].children
             own == SelectSeq([k \in 1..Len(c) |->
                                 [parcel |-> parcels[i].Name, node |-> c[k]]],
                              LAMBDA x : x.node.tag = tag)
         IN  own \o iter(parcels, i + 1, tag)

\* d[k] = v
setitem(d, k, v) == (k :> v) @@ d

\* the loop over the Vertices nodes, from node i on
RECURSIVE vertices_loop(_, _, _, _)
vertices_loop(nodes, i, plabel2idx, mapping) ==
    IF i > Len(nodes) THEN Return_(mapping)
    ELSE LET parcel_index == plabel2idx[nodes[i].parcel]
             structure    == nodes[i].node.BrainStructure
             v            == ints(split_sep(nodes[i].node.text, " "))
         IN  IF Invalid \in Range(v)
             THEN Raise("ValueError", "invalid literal for int()")
             ELSE IF structure = LEFT
             THEN vertices_loop(nodes, i + 1, plabel2idx,
                    [mapping EXCEPT !["CortexLeft"] = setitem(@, parcel_index, v)])
             ELSE IF structure = RIGHT
             THEN vertices_loop(nodes, i + 1, plabel2idx,
                    [mapping EXCEPT !["CortexRight"] = setitem(@, parcel_index, v)])
             ELSE Raise("ValueError", UnrecognizedMsg)

\* the loop over the VoxelIndicesIJK nodes, from node i on
RECURSIVE voxels_loop(_, _, _, _)
voxels_loop(nodes, i, plabel2idx, mapping) ==
    IF i > Len(nodes) THEN Return_(mapping)
    ELSE LET parcel_index == plabel2idx[nodes[i].parcel]
             flat         == ints(split_ws(nodes[i].node.text))
         IN  IF Invalid \in Range(flat)
             THEN Raise("ValueError", "invalid literal for int()")
             ELSE IF Len(flat) % 3 # 0
             THEN Raise("ValueError", "cannot reshape array")
             ELSE voxels_loop(nodes, i + 1, plabel2idx,
                    [mapping EXCEPT !["Subcortex"] =
                        setitem(@, parcel_index, reshape3(flat))])

\* the check of the file extension: the exception it raises, or NoValue
parcel_check(image) ==
    LET ext1 == splitext(image)[2]
        ext2 == splitext(splitext(image)[1])[2]
    IN  IF ext1 # dot_nii \/ ext2 # dot_pscalar
        THEN Raise("TypeError", NotPscalarMsg)
        ELSE NoValue

\* the whole function: its outcome and the table plabel2idx it has built
parcel_to_vertex(image, xml) ==
    LET plabel2idx == parcel_loop(xml.parcels, 1, << >>, 0)
        empty == [k \in Range(structures) |-> << >>]
        cortex == vertices_loop(iter(xml.parcels, 1, "Vertices"), 1,
                                plabel2idx, empty)
    IN  IF IsError(parcel_check(image))
        THEN [result |-> parcel_check(image), built |-> FALSE,
              plabel2idx |-> << >>]
        ELSE IF ~xml.wellformed
        THEN [result |-> Raise("ParseError", "syntax error"), built |-> FALSE,
              plabel2idx |-> << >>]
        ELSE [result |-> IF IsError(cortex) THEN cortex
                         ELSE voxels_loop(
                                iter(xml.parcels, 1, "VoxelIndicesIJK"), 1,
                                plabel2idx, cortex.value),
              built |-> TRUE,
              plabel2idx |-> plabel2idx]

----------------------------------------------------------------------------
(* invdist *)

\* floating-point values in thousandths, and the infinity
Float(milli) == [inf |-> FALSE, milli |-> milli]
Infinity     == [inf |-> TRUE, milli |-> 0]

Distances == {0, 2, 4}

\* a numpy array of distances, a Python number, or an object without division
KernelInputs ==
    {[type |-> "ndarray", data |-> d] : d \in SeqsUpTo(Distances, MaxLen)}
    \cup {[type |-> "float", data |-> <<x>>] : x \in Distances}
    \cup {[type |-> "list", data |-> << >>]}

\* 1. / x for an element x of an array: IEEE division, no exception
true_divide(x) == IF x = 0 THEN Infinity ELSE Float(1000 \div x)

invdist(d) ==
    IF d.type = "ndarray"
    THEN Return_([type |-> "ndarray",
                  data |-> [i \in 1..Len(d.data) |-> true_divide(d.data[i])]])
    ELSE IF d.type = "float"
    THEN IF d.data[1] = 0
         THEN Raise("ZeroDivisionError", "float division by zero")
         ELSE Return_([type |-> "float",
                       data |-> <<Float(1000 \div d.data[1])>>])
    ELSE Raise("TypeError", "unsupported operand type(s) for /")

----------------------------------------------------------------------------
(* The actions *)

NoArgs   == [none |-> TRUE]
NoLocals == [none |-> TRUE]

Init ==
    /\ pc = "idle"
    /\ op = "none"
    /\ args = NoArgs
    /\ result = NoValue
    /\ locals = NoLocals
    /\ tmpdirs = {}
    /\ created = {}

ExportCiftiMapping ==
    /\ pc = "idle"
    /\ Cardinality(tmpdirs) < MaxDirs
    /\ \E image \in Paths :
         \E wb \in IF export_check(image) # NoValue THEN {NotRun}
                   ELSE AtlasRuns :
           LET c == export_cifti_mapping(image, wb, tmpdirs)
           IN  /\ args' = [image |-> image, wb |-> wb]
               /\ result' = c.result
               /\ locals' = [structs_present |-> c.structs_present]
               /\ created' = c.created
               /\ tmpdirs' = c.dirs
    /\ op' = "export_cifti_mapping"
    /\ pc' = "returned"

LoadData ==
    /\ pc = "idle"
    /\ \E f \in Paths, file \in Files :
         /\ args' = [f |-> f, file |-> file]
         /\ result' = load_data(f, file)
    /\ locals' = NoLocals
    /\ op' = "load_data"
    /\ pc' = "returned"
    /\ created' = {}
    /\ UNCHANGED tmpdirs

GetHemisphere ==
    /\ pc = "idle"
    /\ \E root \in MetaDocs :
         /\ args' = [root |-> root]
         /\ result' = get_hemisphere(root)
    /\ locals' = NoLocals
    /\ op' = "get_hemisphere"
    /\ pc' = "returned"
    /\ created' = {}
    /\ UNCHANGED tmpdirs

\* the tool's answers are drawn when the tool is run
MaskMedialWall ==
    /\ pc = "idle"
    /\ Cardinality(tmpdirs) + 2 <= MaxDirs
    /\ \E path \in {f_surf_gii, f_txt}, file \in Files, image \in Paths :
         LET surface == [path |-> path, file |-> file]
             early   == IsError(mask_checks(surface, image))
         IN  \E wb_image \in IF early THEN {NotRun} ELSE ImageRuns :
               LET failed ==
                     \/ early
                     \/ IsError(export_cifti_mapping(image, wb_image,
                                                     tmpdirs).result)
               IN  \E wb_atlas \in IF failed THEN {NotRun} ELSE AtlasRuns :
                     LET c == mask_medial_wall(surface, image, wb_image,
                                               wb_atlas, tmpdirs)
                     IN  /\ args' = [surface  |-> surface,
                                     image    |-> image,
                                     wb_image |-> wb_image,
                                     wb_atlas |-> wb_atlas]
                         /\ result' = c.result
                         /\ locals' = c.locals
                         /\ created' = c.created
                         /\ tmpdirs' = c.dirs
    /\ op' = "mask_medial_wall"
    /\ pc' = "returned"

ParcelToVertex ==
    /\ pc = "idle"
    /\ \E image \in Paths :
         \E xml \in IF IsError(parcel_check(image)) THEN {NotRead}
                    ELSE Documents :
           LET c == parcel_to_vertex(image, xml)
           IN  /\ args' = [image |-> image, xml |-> xml]
               /\ result' = c.result
               /\ locals' = [built |-> c.built, plabel2idx |-> c.plabel2idx]
    /\ op' = "parcel_to_vertex"
    /\ pc' = "returned"
    /\ created' = {}
    /\ UNCHANGED tmpdirs

Invdist ==
    /\ pc = "idle"
    /\ \E d \in KernelInputs :
         /\ args' = [d |-> d]
         /\ result' = invdist(d)
    /\ locals' = NoLocals
    /\ op' = "invdist"
    /\ pc' = "returned"
    /\ created' = {}
    /\ UNCHANGED tmpdirs

\* the caller drops what the call has returned
ReturnToCaller ==
    /\ pc = "returned"
    /\ pc' = "idle"
    /\ op' = "none"
    /\ args' = NoArgs
    /\ result' = NoValue
    /\ locals' = NoLocals
    /\ created' = {}
    /\ UNCHANGED tmpdirs

Next ==
    \/ LoadData
    \/ ParcelToVertex
    \/ Invdist
    \/ GetHemisphere
    \/ ExportCiftiMapping
    \/ MaskMedialWall
    \/ ReturnToCaller

Spec == Init /\ [][Next]_vars

\* the functions that run the external tool, alone
ExportNext ==
    \/ ExportCiftiMapping
    \/ MaskMedialWall
    \/ ReturnToCaller

ExportSpec == Init /\ [][ExportNext]_vars

----------------------------------------------------------------------------
(* Properties *)

Returned(f) == pc = "returned" /\ op = f

\* the file system before the call that has returned
DirsBefore == tmpdirs \ created

EndsWith(p, suffix) ==
    /\ Len(p) >= Len(suffix)
    /\ SubSeq(p, Len(p) - Len(suffix) + 1, Len(p)) = suffix

----------------------------------------------------------------------------
(* mask_medial_wall: C1, C2, C10 *)

MaskReturned == Returned("mask_medial_wall") /\ result.kind = "ok"

\* the rows of the atlas for the hemisphere of the surface, as the tool
\* wrote them: <<CIFTI index, vertex>>
AtlasRows == args.wb_atlas[locals.surface_structure].file
AtlasCiftiIndices == {AtlasRows[i][1] : i \in 1..Len(AtlasRows)}
AtlasVertices     == {AtlasRows[i][2] : i \in 1..Len(AtlasRows)}

MaskPositions == 0..(args.surface.file.nv - 1)

\* C1 as stated: the mask has one entry per vertex, and the entries that are
\* false are exactly those at the CIFTI indices (the keys) of the atlas table
\* of the surface's hemisphere.
C1_FalseAtCiftiIndices ==
    MaskReturned =>
        /\ Len(result.value) = args.surface.file.nv
        /\ \A p \in MaskPositions :
               (result.value[p + 1] = FALSE) <=> (p \in AtlasCiftiIndices)

\* C1 as amended: the mask has one entry per vertex, and the entries that are
\* false are exactly those at the vertex numbers (the values) of the atlas
\* table of the surface's hemisphere; every other entry is true.
C1_FalseAtAtlasVertices ==
    MaskReturned =>
        /\ Len(result.value) = args.surface.file.nv
        /\ \A p \in MaskPositions :
               (result.value[p + 1] = FALSE) <=> (p \in AtlasVertices)

\* a mask from a table whose vertices differ from its CIFTI indices
C1_Witness ==
    /\ MaskReturned
    /\ AtlasVertices # AtlasCiftiIndices
    /\ \E p \in MaskPositions : result.value[p + 1]

TrueEntries  == {p \in MaskPositions : result.value[p + 1]}
FalseEntries == {p \in MaskPositions : ~result.value[p + 1]}

MaskOfDscalar ==
    Returned("mask_medial_wall") /\ EndsWith(args.image, dot_dscalar \o dot_nii)

MaskChecksFailed == IsError(mask_checks(args.surface, args.image))

\* the export of the caller's image succeeds when the tool answers wb
ImageExported(wb) ==
    ~IsError(export_cifti_mapping(args.image, wb, DirsBefore).result)

\* the atlas answers under which the call that has returned has that outcome
SameAtlas == IF args.wb_atlas = NotRun THEN AtlasRuns ELSE {args.wb_atlas}

\* C10 as stated: with the same surface and the same atlas, a call with a
\* .dscalar.nii image has the same outcome whatever the tool answers for the
\* image.
C10_ImageAnswersIgnored ==
    MaskOfDscalar =>
        \A wb \in ImageRuns : \A atlas \in SameAtlas :
            mask_medial_wall(args.surface, args.image, wb, atlas,
                             DirsBefore).result = result

\* C10 as amended: a call with a .dscalar.nii image whose surface passes the
\* checks and whose image is not exported (an empty output file, or no
\* structure present) fails with the error of that export; every other call
\* has the outcome of every call with the same surface and atlas whose image
\* is exported.
C10_ImageOnlyThroughExport ==
    MaskOfDscalar =>
        IF ~MaskChecksFailed /\ ~ImageExported(args.wb_image)
        THEN /\ Raised(result, "RuntimeError")
             /\ result = export_cifti_mapping(args.image, args.wb_image,
                                              DirsBefore).result
        ELSE \A wb \in ImageRuns : \A atlas \in SameAtlas :
                ImageExported(wb) =>
                    mask_medial_wall(args.surface, args.image, wb, atlas,
                                     DirsBefore).result = result

\* a mask returned for an image in which the tool finds one cortex only
C10_Witness ==
    /\ MaskOfDscalar
    /\ result.kind = "ok"
    /\ Len(locals.image_structure) = 1

----------------------------------------------------------------------------
(* export_cifti_mapping: C3, C4, C6 *)

\* C3: a call that has ended has removed every scratch directory it created,
\* so that no scratch directory exists between calls.
C3_ScratchRemoved ==
    /\ pc = "returned" => created \cap tmpdirs = {}
    /\ pc = "idle" => tmpdirs = {}

ExportRan == Returned("export_cifti_mapping") /\ created # {}

Usable(s) == args.wb[s].returncode = 0 /\ args.wb[s].file # << >>
Hollow(s) == args.wb[s].returncode = 0 /\ args.wb[s].file = << >>

\* C4: the export fails with the empty-file error if some structure exits 0
\* with an empty file; otherwise with the no-files error if no structure exits
\* 0 with a file that is not empty; otherwise it returns a mapping whose keys
\* are the structures that exit 0 with a file that is not empty.
C4_ExportOutcome ==
    ExportRan =>
        IF \E s \in Range(structures) : Hollow(s)
        THEN Raised(result, "RuntimeError") /\ result.msg = EmptyFileMsg
        ELSE IF ~\E s \in Range(structures) : Usable(s)
        THEN Raised(result, "RuntimeError") /\ result.msg = NoFilesMsg
        ELSE /\ result.kind = "ok"
             /\ DOMAIN result.value = {s \in Range(structures) : Usable(s)}

\* an empty file for the right cortex after a usable file for the subcortex
C4_Witness ==
    /\ ExportRan
    /\ Usable("Subcortex")
    /\ args.wb["CortexLeft"].returncode # 0
    /\ Hollow("CortexRight")

\* p = <stem>.<letter><category>.nii
HasCategory(p, letter) ==
    /\ EndsWith(p, dot_nii)
    /\ \E i \in 1..(Len(p) - 5) :
          /\ p[i] = "."
          /\ p[i + 1] = letter
          /\ \A k \in (i + 1)..(Len(p) - 4) : p[k] \notin {".", "/"}

IsDense(p)       == HasCategory(p, "d")
IsParcellated(p) == HasCategory(p, "p")
IsSurface(p)     == EndsWith(p, dot_gii)

\* C6: export_cifti_mapping goes on with a path that ends in .d<category>.nii
\* and raises the file-type error for every other path; parcel_to_vertex goes
\* on with a path that ends in .p<category>.nii and raises the file-type error
\* for every other path; load_data accepts a path that ends in .gii.
C6_ClassifiedBySuffix ==
    /\ Returned("export_cifti_mapping") =>
          IF IsDense(args.image) THEN created # {}
          ELSE Raised(result, "TypeError") /\ result.msg = NotDenseMsg
    /\ Returned("parcel_to_vertex") =>
          IF IsParcellated(args.image) THEN args.xml # NotRead
          ELSE Raised(result, "TypeError") /\ result.msg = NotPscalarMsg
    /\ (Returned("load_data") /\ IsSurface(args.f)) => result.kind = "ok"

----------------------------------------------------------------------------
(* parcel_to_vertex: C5, C7 *)

ParcelWalked == Returned("parcel_to_vertex") /\ locals.built

DocParcels == args.xml.parcels

NamesDistinct ==
    \A i, j \in 1..Len(DocParcels) :
        DocParcels[i].Name = DocParcels[j].Name => i = j

\* C5: the table of a document whose parcel names are distinct maps the name
\* of the i-th Parcel node to i - 1; a document in which a name repeats is
\* rejected with the duplicate-name error.
C5_OrdinalsBijective ==
    ParcelWalked =>
        IF NamesDistinct
        THEN /\ DOMAIN locals.plabel2idx =
                    {DocParcels[i].Name : i \in 1..Len(DocParcels)}
             /\ \A i \in 1..Len(DocParcels) :
                    locals.plabel2idx[DocParcels[i].Name] = i - 1
        ELSE Raised(result, "DuplicateParcelName")

\* the nodes of the i-th Parcel with this tag and structure
NodesOf(i, tag, structure) ==
    {k \in 1..Len(DocParcels[i].children) :
        /\ DocParcels[i].children[k].tag = tag
        /\ DocParcels[i].children[k].BrainStructure = structure}

\* the whitespace-separated integers of a node's text
IntegerList(node) == ints(split_ws(node.text))

\* the association a structure should have: the ordinal of every Parcel that
\* holds a node for it, mapped to that node's list
Association(tag, structure, shaped(_)) ==
    [o \in {i - 1 : i \in {j \in 1..Len(DocParcels) :
                              NodesOf(j, tag, structure) # {}}} |->
        LET c == DocParcels[o + 1].children
            k == CHOOSE n \in NodesOf(o + 1, tag, structure) : TRUE
        IN  shaped(IntegerList(c[k]))]

SameAssociation(a, b) ==
    /\ DOMAIN a = DOMAIN b
    /\ \A o \in DOMAIN a : a[o] = b[o]

AllNodes ==
    UNION {Range(DocParcels[i].children) : i \in 1..Len(DocParcels)}

\* C7: for a document whose Vertices nodes are all of the left or the right
\* cortex (and whose voxel lists are lists of triples) the function returns a
\* mapping with the three structure keys, in which every node's list is stored
\* under the ordinal of the Parcel that holds it and nothing else is stored.
C7_GeometryUnderOrdinal ==
    (/\ ParcelWalked
     /\ \A n \in AllNodes :
           /\ n.tag = "Vertices" => n.BrainStructure \in {LEFT, RIGHT}
           /\ n.tag = "VoxelIndicesIJK" => Len(IntegerList(n)) % 3 = 0)
    => /\ result.kind = "ok"
       /\ DOMAIN result.value = Range(structures)
       /\ SameAssociation(result.value["CortexLeft"],
                          Association("Vertices", LEFT, LAMBDA l : l))
       /\ SameAssociation(result.value["CortexRight"],
                          Association("Vertices", RIGHT, LAMBDA l : l))
       /\ SameAssociation(result.value["Subcortex"],
                          Association("VoxelIndicesIJK", "", reshape3))

----------------------------------------------------------------------------
(* get_hemisphere: C8 *)

FieldPresent == Len(args.root) >= 1 /\ Len(args.root[1]) >= 2

\* C8: get_hemisphere returns CortexLeft or CortexRight when the field holds
\* it, and fails with the unrecognized-structure error, and with no other
\* error, when the field holds another value or is absent.
C8_HemisphereOrUnrecognized ==
    Returned("get_hemisphere") =>
        IF FieldPresent /\ args.root[1][2] \in {"CortexLeft", "CortexRight"}
        THEN result = Return_(args.root[1][2])
        ELSE Raised(result, "ValueError") /\ result.msg = UnidentifiedMsg

----------------------------------------------------------------------------
(* invdist: C9 *)

\* C9: invdist of an array that holds a zero fails with ZeroDivisionError and
\* returns no infinity; of an array without a zero it returns the reciprocals.
C9_ZeroDistanceRaises ==
    (Returned("invdist") /\ args.d.type = "ndarray") =>
        IF 0 \in Range(args.d.data)
        THEN Raised(result, "ZeroDivisionError")
        ELSE /\ result.kind = "ok"
             /\ Len(result.value.data) = Len(args.d.data)
             /\ \A i \in 1..Len(args.d.data) :
                   /\ ~result.value.data[i].inf
                   /\ result.value.data[i].milli * args.d.data[i] = 1000

====
